---- MODULE Spec2Model ----
(***************************************************************************)
(* Model of the CMDI bulk modifier: the modifiers of                       *)
(* src/modifiers/lb_modifiers.py working on an lxml element tree, and the  *)
(* update_metadata pipeline of src/update_cmdi.py driving them.            *)
(*                                                                         *)
(* An element is a record                                                  *)
(*   [ns, tag, lang, text, ws, kids]                                       *)
(* ns   : the namespace of the tag ("cmd", "oai", or "" for none),         *)
(* tag  : the local name,                                                  *)
(* lang : the xml:lang attribute ("" when absent),                         *)
(* text : the character data of a leaf, a tuple of one-character strings,  *)
(* ws   : the whitespace around the element: "raw" as parsed, "indented"   *)
(*        once lxml.etree.indent has normalised it,                        *)
(* kids : the ordered children.                                            *)
(* An element of the tree is addressed by its path: the tuple of child     *)
(* indices leading to it from the record's root.                           *)
(***************************************************************************)
EXTENDS Integers, Sequences, FiniteSets, TLC

\* ------------------------------------------------------------------ bounds
\* Most wrappers below licenceInfo in a harvested record.
MaxLicenceKids == 2
\* Most times a modifier is applied to the same record in ModSpec.
MaxApplications == 2
\* Most records the harvest yields in one run of the pipeline.
MaxRecords == 2
\* Most entries of the affiliation file.
MaxAffiliations == 2
\* Most pieces a PID handed to short_identifier_from_pid is made of.
MaxPidPieces == 5

\* ------------------------------------------------------- sequence helpers
Last(s) == s[Len(s)]

SeqsUpTo(S, n) == UNION {[1..k -> S] : k \in 0..n}

Range(s) == {s[i] : i \in 1..Len(s)}

\* --------------------------------------------------------------- elements
Node(ns, tag, lang, text, kids) ==
    [ns |-> ns, tag |-> tag, lang |-> lang, text |-> text, ws |-> "raw",
     kids |-> kids]

\* an element of the CMDI namespace holding children
Cmd(tag, kids) == Node("cmd", tag, "", <<>>, kids)
\* a leaf of the CMDI namespace holding text
CmdText(tag, text) == Node("cmd", tag, "", text, <<>>)
\* an element parsed from a fragment that declares no namespace
Bare(tag, kids) == Node("", tag, "", <<>>, kids)
BareText(tag, lang, text) == Node("", tag, lang, text, <<>>)

RECURSIVE At(_, _)
At(n, p) == IF p = <<>> THEN n ELSE At(n.kids[Head(p)], Tail(p))

RECURSIVE ValidPath(_, _)
ValidPath(n, p) ==
    \/ p = <<>>
    \/ /\ Head(p) \in 1..Len(n.kids)
       /\ ValidPath(n.kids[Head(p)], Tail(p))

ParentPath(p) == SubSeq(p, 1, Len(p) - 1)

\* element.getparent().replace(element, new): same position among siblings
RECURSIVE ReplaceAt(_, _, _)
ReplaceAt(n, p, new) ==
    IF p = <<>> THEN new
    ELSE [n EXCEPT !.kids[Head(p)] = ReplaceAt(@, Tail(p), new)]

\* element.append(child): child becomes the last child
RECURSIVE AppendAt(_, _, _)
AppendAt(n, p, child) ==
    IF p = <<>> THEN [n EXCEPT !.kids = Append(@, child)]
    ELSE [n EXCEPT !.kids[Head(p)] = AppendAt(@, Tail(p), child)]

\* lxml.etree.indent(tree): rewrites only the whitespace around elements
RECURSIVE Indent(_)
RECURSIVE IndentAll(_)
IndentAll(kids) ==
    IF kids = <<>> THEN <<>>
    ELSE <<Indent(Head(kids))>> \o IndentAll(Tail(kids))

Indent(n) == [n EXCEPT !.ws = "indented", !.kids = IndentAll(n.kids)]

\* ------------------------------------------------------------------ xpath
Is(n, ns, tag) == n.ns = ns /\ n.tag = tag

\* paths, in document order, of the descendants named ns:tag of the
\* element n found at path p; i is the next child to visit
RECURSIVE NamedFrom(_, _, _, _, _)
NamedFrom(n, p, i, ns, tag) ==
    IF i > Len(n.kids) THEN <<>>
    ELSE (IF Is(n.kids[i], ns, tag) THEN <<p \o <<i>>>> ELSE <<>>)
         \o NamedFrom(n.kids[i], p \o <<i>>, 1, ns, tag)
         \o NamedFrom(n, p, i + 1, ns, tag)

\* .//ns:tag : every descendant element with that name, in document order
DescendantsNamed(root, ns, tag) == NamedFrom(root, <<>>, 1, ns, tag)

\* child::ns:tag of the element n found at path p, from child i on
RECURSIVE ChildrenFrom(_, _, _, _, _)
ChildrenFrom(n, p, i, ns, tag) ==
    IF i > Len(n.kids) THEN <<>>
    ELSE (IF Is(n.kids[i], ns, tag) THEN <<p \o <<i>>>> ELSE <<>>)
         \o ChildrenFrom(n, p, i + 1, ns, tag)

ChildPaths(root, p, ns, tag) == ChildrenFrom(At(root, p), p, 1, ns, tag)

\* one child step applied to every path of ps, results in document order
RECURSIVE StepPaths(_, _, _)
StepPaths(root, ps, step) ==
    IF ps = <<>> THEN <<>>
    ELSE ChildPaths(root, Head(ps), step[1], step[2])
         \o StepPaths(root, Tail(ps), step)

\* a relative location path ./s1/s2/.../sn evaluated at the root
RECURSIVE LocationPaths(_, _, _)
LocationPaths(root, ps, steps) ==
    IF steps = <<>> THEN ps
    ELSE LocationPaths(root, StepPaths(root, ps, Head(steps)), Tail(steps))

\* ./ns:tag[text()="value"] is non-empty for element n
HasChildWithText(n, ns, tag, value) ==
    \E i \in 1..Len(n.kids) :
        Is(n.kids[i], ns, tag) /\ n.kids[i].text = value /\ value # <<>>

HasChild(n, ns, tag) == \E i \in 1..Len(n.kids) : Is(n.kids[i], ns, tag)

\* BaseModifier.elements_matching_xpath as the modifiers call it:
\* cmdi_record.xpath(xpath, namespaces={cmd, oai}); here for the
\* MdSelfLink text used as the record's identifier
MdSelfLinkPath == <<<<"oai", "metadata">>, <<"cmd", "CMD">>,
                    <<"cmd", "Header">>, <<"cmd", "MdSelfLink">>>>

RECURSIVE TextsAt(_, _)
TextsAt(root, ps) ==
    IF ps = <<>> THEN <<>>
    ELSE (IF At(root, Head(ps)).text # <<>> THEN <<At(root, Head(ps)).text>>
          ELSE <<>>)
         \o TextsAt(root, Tail(ps))

\* .../cmd:MdSelfLink/text(): the text nodes, in document order
MdSelfLinkTexts(root) ==
    TextsAt(root, LocationPaths(root, <<<<>>>>, MdSelfLinkPath))

\* ------------------------------------------------------------- exceptions
NoError == [kind |-> "none", detail |-> <<"", "">>]

\* a call that returned `result`, leaving the record as `rec`
Return(rec, result) ==
    [rec |-> rec, result |-> result, err |-> NoError, diag |-> <<>>]

\* a call that returned False after printing `diag` to stderr
ReturnFalse(rec, diag) ==
    [rec |-> rec, result |-> FALSE, err |-> NoError, diag |-> diag]

\* a call that raised, leaving the record as `rec`
Raise(rec, kind, detail) ==
    [rec |-> rec, result |-> FALSE, err |-> [kind |-> kind, detail |-> detail],
     diag |-> <<>>]

Raised(out) == out.err.kind # "none"

\* ------------------------------------------------- configured text values
SpaceChar == " "

FinclarinSurname == <<"F","I","N","-","C","L","A","R","I","N">>

LanguageBankSurname ==
    <<"T","h","e"," ","L","a","n","g","u","a","g","e"," ","B","a","n","k"," ",
    "o","f"," ","F","i","n","l","a","n","d">>

RoleLicensor == <<"l","i","c","e","n","s","o","r">>

RoleDistributionRightsHolder ==
    <<"d","i","s","t","r","i","b","u","t","i","o","n","R","i","g","h","t","s",
    "H","o","l","d","e","r">>

RoleAffiliation == <<"a","f","f","i","l","i","a","t","i","o","n">>

RoleResourceCreator ==
    <<"r","e","s","o","u","r","c","e","C","r","e","a","t","o","r">>

\* FinclarinPersonToOrganizationModifier.organization_info_str, parsed: the
\* fragment declares no namespace
FinclarinOrganizationInfo ==
    Bare("organizationInfo", <<
        BareText("organizationName", "en",
            <<"F","I","N","-","C","L","A","R","I","N">>),
        BareText("organizationShortName", "en",
            <<"F","I","N","-","C","L","A","R","I","N">>),
        BareText("departmentName", "en",
            <<"U","n","i","v","e","r","s","i","t","y"," ","o","f"," ","H","e",
            "l","s","i","n","k","i">>),
        Bare("communicationInfo", <<
            BareText("email", "",
                <<"f","i","n","-","c","l","a","r","i","n","@","h","e","l","s",
                "i","n","k","i",".","f","i">>),
            BareText("url", "",
                <<"h","t","t","p",":","/","/","w","w","w",".","h","e","l","s",
                "i","n","k","i",".","f","i","/","f","i","n","-","c","l","a",
                "r","i","n">>),
            BareText("address", "",
                <<"P","O"," ","B","o","x"," ","2","4"," ","(","U","n","i","o",
                "n","i","n","k","a","t","u"," ","4","0",")">>),
            BareText("zipCode", "", <<"0","0","0","1","4">>),
            BareText("city", "",
                <<"U","n","i","v","e","r","s","i","t","y"," ","o","f"," ","H",
                "e","l","s","i","n","k","i">>),
            BareText("country", "", <<"F","i","n","l","a","n","d">>)>>)>>)

\* LanguageBankPersonToOrganizationModifier.organization_info_str, parsed
\* (the em dash of the English name is written "U+2014")
LanguageBankOrganizationInfo ==
    Bare("organizationInfo", <<
        BareText("organizationName", "fi",
            <<"C","S","C"," ","-"," ","T","i","e","t","e","e","n"," ","t","i",
            "e","t","o","t","e","k","n","i","i","k","a","n"," ","k","e","s",
            "k","u","s"," ","O","y">>),
        BareText("organizationName", "en",
            <<"C","S","C"," ","U+2014"," ","I","T"," ","C","e","n","t","e","r"," ",
            "f","o","r"," ","S","c","i","e","n","c","e"," ","L","t","d">>),
        BareText("organizationShortName", "en", <<"C","S","C">>),
        BareText("departmentName", "en",
            <<"K","i","e","l","i","p","a","n","k","k","i">>),
        Bare("communicationInfo", <<
            BareText("email", "",
                <<"k","i","e","l","i","p","a","n","k","k","i","@","c","s","c",
                ".","f","i">>),
            BareText("url", "",
                <<"h","t","t","p",":","/","/","w","w","w",".","c","s","c",".",
                "f","i","/","e","n","g","l","i","s","h">>),
            BareText("address", "",
                <<"P",".","O","."," ","B","o","x"," ","4","0","5">>),
            BareText("zipCode", "", <<"F","I","-","0","2","1","0","1">>),
            BareText("city", "", <<"E","s","p","o","o">>),
            BareText("country", "", <<"F","i","n","l","a","n","d">>),
            BareText("telephoneNumber", "",
                <<"+","3","5","8"," ","(","0",")","9"," ","4","5","7"," ","2",
                "0","0","1">>),
            BareText("faxNumber", "",
                <<"+","3","5","8"," ","(","0",")","9"," ","4","5","7"," ","2",
                "3","0","2">>)>>)>>)

\* UhelDistributionRightsHolderModifier.distribution_rights_holder_str,
\* parsed: no namespace is declared on the fragment
UhelDistributionRightsHolder ==
    Bare("distributionRightsHolderOrganization", <<
        BareText("role", "",
            <<"d","i","s","t","r","i","b","u","t","i","o","n","R","i","g","h",
            "t","s","H","o","l","d","e","r">>),
        Bare("organizationInfo", <<
            BareText("organizationName", "en",
                <<"U","n","i","v","e","r","s","i","t","y"," ","o","f"," ","H",
                "e","l","s","i","n","k","i">>),
            BareText("organizationShortName", "en", <<"U","H","E","L">>),
            Bare("communicationInfo", <<
                BareText("email", "",
                    <<"f","i","n","-","c","l","a","r","i","n","@","h","e","l",
                    "s","i","n","k","i",".","f","i">>)>>)>>)>>)

\* ------------------------------------------------------ harvested records
\* Text values found in harvested records.
GivenTi == <<"T", "i">>
SurnameTu == <<"T", "u">>
OrgNameEn == <<"O", "r", "g">>
OrgNameFi == <<"J", "k">>

HarvestedOrganizationInfo ==
    Cmd("organizationInfo", <<
        Node("cmd", "organizationName", "en", OrgNameEn, <<>>),
        Node("cmd", "organizationName", "fi", OrgNameFi, <<>>),
        Cmd("communicationInfo", <<CmdText("email", <<"o", "@", "x">>)>>)>>)

PersonInfo(surname, given, affiliated) ==
    Cmd("personInfo",
        <<CmdText("surname", surname)>>
        \o (IF given # <<>> THEN <<CmdText("givenName", given)>> ELSE <<>>)
        \o (IF affiliated
            THEN <<Cmd("affiliation", <<CmdText("role", RoleAffiliation),
                                        HarvestedOrganizationInfo>>)>>
            ELSE <<>>))

\* a role wrapper of the profile: its role and one personInfo
PersonWrapper(tag, person) == Cmd(tag, <<CmdText("role", <<tag>>), person>>)

OrganizationWrapper(tag) ==
    Cmd(tag, <<CmdText("role", <<tag>>), HarvestedOrganizationInfo>>)

PersonFinclarin == PersonInfo(FinclarinSurname, <<>>, FALSE)
PersonLanguageBank == PersonInfo(LanguageBankSurname, <<>>, FALSE)
PersonTiTu == PersonInfo(SurnameTu, GivenTi, FALSE)
PersonTiTuAffiliated == PersonInfo(SurnameTu, GivenTi, TRUE)

\* what a harvested record may hold below licenceInfo
LicenceWrappers ==
    { PersonWrapper("licensorPerson", PersonFinclarin),
      PersonWrapper("distributionRightsHolderPerson", PersonFinclarin),
      PersonWrapper("distributionRightsHolderPerson", PersonLanguageBank),
      PersonWrapper("iprHolderPerson", PersonFinclarin),
      OrganizationWrapper("distributionRightsHolderOrganization") }

Layouts == {"raw", "indented"}

\* PIDs as found in MdSelfLink
PidListed == <<"u", ":", "l", "b", "-", "1">>
PidOther == <<"u", ":", "l", "b", "-", "2">>

\* the <record> element the harvest yields (cmdi_records: record.xml)
HarvestedRecord(pid, layout, contacts, creator, licence, creation) ==
    LET tree ==
          Node("oai", "record", "", <<>>, <<
            Node("oai", "header", "", <<>>,
                 <<Node("oai", "identifier", "", pid, <<>>)>>),
            Node("oai", "metadata", "", <<>>, <<
              Cmd("CMD", <<
                Cmd("Header", <<CmdText("MdSelfLink", pid)>>),
                Cmd("Components", <<
                  Cmd("resourceInfo",
                      contacts
                      \o <<Cmd("metadataInfo", creator)>>
                      \o <<Cmd("distributionInfo",
                               <<Cmd("licenceInfo", licence)>>)>>
                      \o creation)>>)>>)>>)>>)
    IN  IF layout = "indented" THEN Indent(tree) ELSE tree

\* ------------------------------------------ PersonToOrganizationModifier
IsPrefix(a, b) == Len(a) <= Len(b) /\ SubSeq(b, 1, Len(a)) = a

\* .//cmd:personInfo[./cmd:surname[text()="{person_surname}"]]
OrganizationPersons(rec, person_surname) ==
    LET all == DescendantsNamed(rec, "cmd", "personInfo")
        hit(p) == HasChildWithText(At(rec, p), "cmd", "surname", person_surname)
    IN  SelectSeq(all, hit)

DistributionRightsHolderOrganization(organization_info) ==
    Cmd("distributionRightsHolderOrganization",
        <<CmdText("role", RoleDistributionRightsHolder), organization_info>>)

\* variant: the role text of the other branch
LicensorOrganizationOtherRole(organization_info) ==
    Cmd("licensorOrganization",
        <<CmdText("role", RoleDistributionRightsHolder), organization_info>>)

LicensorOrganization(organization_info) ==
    Cmd("licensorOrganization",
        <<CmdText("role", RoleLicensor), organization_info>>)

\* variants: an unknown role skipped silently; metadataCreator forgotten
UntouchedRolesAndUnknown ==
    {"contactPerson", "metadataCreator", "iprHolderPerson"}
UntouchedRolesContactOnly == {"contactPerson"}

\* the parent roles under which a matching person is left alone
UntouchedRoles == {"contactPerson", "metadataCreator"}

\* the parent roles that are rewritten into an organization
RewrittenRoles == {"distributionRightsHolderPerson", "licensorPerson"}

\* variant: the new element is added to the grandparent, the parent stays
GrandparentAppend(rec, pp, new_element) ==
    AppendAt(rec, ParentPath(pp), new_element)

\* grandparent.replace(parent, new_element), parent being found at path pp
GrandparentReplace(rec, pp, new_element) == ReplaceAt(rec, pp, new_element)

\* variant: the record is put back as it was when the call began
RecordRolledBack(orig, rec) == orig

\* the record an exception leaves behind: modify has no handler, the tree
\* stays as the loop has made it so far
RecordAsLeft(orig, rec) == rec

\* the for loop of modify over organization_persons[k..]; `orig` is the
\* record as it was when the xpath ran (the elements the list refers to),
\* `gone` the paths of the parents already replaced, which are detached
RECURSIVE PersonToOrganizationLoop(_, _, _, _, _, _, _)
PersonToOrganizationLoop(orig, rec, persons, k, modified, gone, info) ==
    IF k > Len(persons) THEN Return(Indent(rec), modified)
    ELSE
      LET pp == ParentPath(persons[k])
          parent == At(orig, pp)
      IN  IF parent.ns = "cmd"
             /\ parent.tag \in UntouchedRoles
          THEN PersonToOrganizationLoop(orig, rec, persons, k + 1, modified,
                                        gone, info)
          ELSE IF parent.ns = "cmd"
                  /\ parent.tag \in RewrittenRoles
          THEN IF pp = <<>> \/ pp \in gone
               THEN \* parent.getparent() is None
                    Raise(rec, "AttributeError", <<parent.ns, parent.tag>>)
               ELSE IF \E g \in gone : IsPrefix(g, pp)
               THEN \* the replacement happens inside a detached subtree
                    PersonToOrganizationLoop(orig, rec, persons, k + 1, TRUE,
                                             gone, info)
               ELSE PersonToOrganizationLoop(
                      orig,
                      GrandparentReplace(rec, pp,
                        IF parent.tag = "distributionRightsHolderPerson"
                        THEN DistributionRightsHolderOrganization(info)
                        ELSE LicensorOrganization(info)),
                      persons, k + 1, TRUE, gone \cup {pp}, info)
          ELSE Raise(RecordAsLeft(orig, rec), "ValueError",
                     <<parent.ns, parent.tag>>)

PersonToOrganizationModify(rec, person_surname, info) ==
    PersonToOrganizationLoop(rec, rec, OrganizationPersons(rec, person_surname),
                             1, FALSE, {}, info)

FinclarinPersonToOrganizationModifier ==
    [kind |-> "PersonToOrganization", person_surname |-> FinclarinSurname,
     organization_info |-> FinclarinOrganizationInfo]

LanguageBankPersonToOrganizationModifier ==
    [kind |-> "PersonToOrganization", person_surname |-> LanguageBankSurname,
     organization_info |-> LanguageBankOrganizationInfo]

\* --------------------------------------- AddOrganizationForPersonModifier
\* .//cmd:personInfo[./cmd:surname[text()=S] and ./cmd:givenName[text()=F]]
\*                  [not(child::cmd:affiliation)]
MatchingPersons(rec, first_name, surname) ==
    LET all == DescendantsNamed(rec, "cmd", "personInfo")
        hit(p) == /\ HasChildWithText(At(rec, p), "cmd", "surname", surname)
                  /\ HasChildWithText(At(rec, p), "cmd", "givenName", first_name)
                  /\ ~HasChild(At(rec, p), "cmd", "affiliation")
    IN  SelectSeq(all, hit)

\* fromstring("<affiliation><role>affiliation</role></affiliation>") with
\* the organization info appended: the fragment declares no namespace
AffiliationElement(organization_info) ==
    Bare("affiliation",
         <<BareText("role", "", RoleAffiliation), organization_info>>)

RECURSIVE AddOrganizationLoop(_, _, _, _, _)
AddOrganizationLoop(rec, persons, k, modified, info) ==
    IF k > Len(persons) THEN Return(rec, modified)
    ELSE AddOrganizationLoop(
           Indent(AppendAt(rec, persons[k], AffiliationElement(info))),
           persons, k + 1, TRUE, info)

AddOrganizationForPersonModify(rec, first_name, surname, info) ==
    AddOrganizationLoop(rec, MatchingPersons(rec, first_name, surname), 1,
                        FALSE, info)

\* the organization_info_str of an entry of the affiliation file, parsed
AffiliationOrganizationInfo ==
    Bare("organizationInfo",
         <<BareText("organizationName", "en", OrgNameEn)>>)

\* ------------------------------------ AddDistributionRightsHolderModifier
LicenceInfoPath ==
    <<<<"oai", "metadata">>, <<"cmd", "CMD">>, <<"cmd", "Components">>,
      <<"cmd", "resourceInfo">>, <<"cmd", "distributionInfo">>,
      <<"cmd", "licenceInfo">>>>

\* ./cmd:distributionInfo/cmd:licenceInfo/cmd:<holder>, from the record
ExistingRightsHolders(rec, holder) ==
    LocationPaths(rec, <<<<>>>>,
                  <<<<"cmd", "distributionInfo">>, <<"cmd", "licenceInfo">>,
                    <<"cmd", holder>>>>)

AddDistributionRightsHolderModify(rec, modified_identifiers, holder) ==
    IF MdSelfLinkTexts(rec) = <<>>
    THEN Raise(rec, "IndexError", <<"cmd", "MdSelfLink">>)
    ELSE IF MdSelfLinkTexts(rec)[1] \notin Range(modified_identifiers)
    THEN Return(rec, FALSE)
    ELSE IF \/ ExistingRightsHolders(rec, "distributionRightsHolderPerson")
                 # <<>>
            \/ ExistingRightsHolders(rec,
                                     "distributionRightsHolderOrganization")
                 # <<>>
    THEN Raise(rec, "ValueError", <<"cmd", "distributionRightsHolder">>)
    ELSE LET licence == LocationPaths(rec, <<<<>>>>, LicenceInfoPath)
         IN  IF licence = <<>>
             THEN Raise(rec, "IndexError", <<"cmd", "licenceInfo">>)
             ELSE Return(Indent(AppendAt(rec, licence[1], holder)), TRUE)

UhelDistributionRightsHolderModifier(affected_identifiers) ==
    [kind |-> "AddDistributionRightsHolder",
     modified_identifiers |-> affected_identifiers,
     holder |-> UhelDistributionRightsHolder]

\* -------------------------------------------------------- Python strings
\* str.split(sep) for a one-character separator
RECURSIVE Split(_, _)
Split(s, sep) ==
    IF \A i \in 1..Len(s) : s[i] # sep THEN <<s>>
    ELSE LET i == CHOOSE j \in 1..Len(s) :
                    s[j] = sep /\ \A h \in 1..(j - 1) : s[h] # sep
         IN  <<SubSeq(s, 1, i - 1)>> \o Split(SubSeq(s, i + 1, Len(s)), sep)

\* str.strip(chars)
RECURSIVE StripChars(_, _)
StripChars(s, chars) ==
    IF s = <<>> THEN s
    ELSE IF Head(s) \in chars THEN StripChars(Tail(s), chars)
    ELSE IF Last(s) \in chars THEN StripChars(SubSeq(s, 1, Len(s) - 1), chars)
    ELSE s

Whitespace == {" ", "\t", "\n"}

\* str.strip()
Strip(s) == StripChars(s, Whitespace)

\* str.split(): the maximal runs of non-whitespace characters
RECURSIVE SplitWhitespace(_)
SplitWhitespace(s) ==
    IF s = <<>> THEN <<>>
    ELSE IF Head(s) \in Whitespace THEN SplitWhitespace(Tail(s))
    ELSE IF \A i \in 1..Len(s) : s[i] \notin Whitespace THEN <<s>>
    ELSE LET i == CHOOSE j \in 1..Len(s) :
                    s[j] \in Whitespace /\ \A h \in 1..(j - 1) : s[h] \notin Whitespace
         IN  <<SubSeq(s, 1, i - 1)>> \o SplitWhitespace(SubSeq(s, i, Len(s)))

Contains(s, c) == \E i \in 1..Len(s) : s[i] = c

\* ------------------------------------------- AddCreatorFromJsonModifier
\* An XPath 1.0 string literal cannot hold its own delimiter: the query
\* built by the f-string then fails to compile (lxml XPathEvalError).
\* Outcome of a helper: [kind |-> "none"] for None, "element" with the
\* element, or "raise".
NoElement == [kind |-> "none", element |-> <<>>, diag |-> <<>>]
NoElementDiag(d) == [kind |-> "none", element |-> <<>>, diag |-> <<d>>]
AnElement(e) == [kind |-> "element", element |-> e, diag |-> <<>>]
XPathError == [kind |-> "raise", element |-> <<>>, diag |-> <<>>]

\* cmd:organizationName[@xml:lang=lang and text()=name] for element n
HasOrganizationName(n, lang, name) ==
    \E i \in 1..Len(n.kids) :
        /\ Is(n.kids[i], "cmd", "organizationName")
        /\ n.kids[i].lang = lang
        /\ n.kids[i].text = name
        /\ name # <<>>

OrganizationElement(rec, author_en, author_fi) ==
    IF /\ (author_en = <<>> \/ author_en[1] # "{")
       /\ (author_fi = <<>> \/ author_fi[1] # "{")
    THEN NoElement
    ELSE
      LET en == StripChars(author_en, {"{", "}"})
          fi == StripChars(author_fi, {"{", "}"})
          all == DescendantsNamed(rec, "cmd", "organizationInfo")
          hit(p) == \/ HasOrganizationName(At(rec, p), "en", en)
                    \/ HasOrganizationName(At(rec, p), "fi", fi)
          pre_existing == SelectSeq(all, hit)
      IN  IF Contains(en, "\"") \/ Contains(fi, "'") THEN XPathError
          ELSE IF pre_existing = <<>> THEN NoElement
          ELSE AnElement(
                 Cmd("resourceCreatorOrganization",
                     <<CmdText("role", RoleResourceCreator),
                       At(rec, pre_existing[1])>>))

PersonElement(rec, author_en, author_fi) ==
    IF Contains(author_en, "{") \/ Contains(author_fi, "{") THEN NoElement
    ELSE
      LET en == Strip(author_en)
          fi == Strip(author_fi)
          ambiguous == en # fi /\ en # <<>> /\ fi # <<>>
          resolved == IF en = fi THEN en ELSE IF en = <<>> THEN fi ELSE en
          tokens == SplitWhitespace(resolved)
          all == DescendantsNamed(rec, "cmd", "personInfo")
          hit(p) == /\ HasChildWithText(At(rec, p), "cmd", "givenName", tokens[1])
                    /\ HasChildWithText(At(rec, p), "cmd", "surname", tokens[2])
          pre_existing == SelectSeq(all, hit)
      IN  IF ambiguous THEN NoElementDiag("Ambiguous author")
          ELSE IF Len(tokens) # 2
          THEN NoElementDiag("Could not determine first/last name split")
          ELSE IF Contains(tokens[1], "\"") \/ Contains(tokens[2], "\"")
          THEN XPathError
          ELSE IF pre_existing = <<>> THEN NoElement
          ELSE AnElement(
                 Cmd("resourceCreatorPerson",
                     <<CmdText("role", RoleResourceCreator),
                       At(rec, pre_existing[1])>>))

\* variant: the newest creator is put first
CollectInFront(author_infos, element) == <<element>> \o author_infos

\* author_infos.append(element)
Collect(author_infos, element) == Append(author_infos, element)

\* the for loop of modify over the zipped author pairs k..; diag collects
\* what was printed to stderr so far
RECURSIVE AuthorInfos(_, _, _, _, _, _)
AuthorInfos(rec, authors_en, authors_fi, k, author_infos, diag) ==
    IF k > Len(authors_en)
    THEN [kind |-> "done", infos |-> author_infos, diag |-> diag]
    ELSE IF authors_en[k] = <<>> /\ authors_fi[k] = <<>>
    THEN AuthorInfos(rec, authors_en, authors_fi, k + 1, author_infos, diag)
    ELSE
      LET org == OrganizationElement(rec, authors_en[k], authors_fi[k])
          person == PersonElement(rec, authors_en[k], authors_fi[k])
      IN  IF org.kind = "raise"
          THEN [kind |-> "raise", infos |-> author_infos, diag |-> diag]
          ELSE IF org.kind = "element"
          THEN AuthorInfos(rec, authors_en, authors_fi, k + 1,
                           Collect(author_infos, org.element), diag)
          ELSE IF person.kind = "raise"
          THEN [kind |-> "raise", infos |-> author_infos,
                diag |-> diag \o person.diag]
          ELSE IF person.kind = "element"
          THEN AuthorInfos(rec, authors_en, authors_fi, k + 1,
                           Collect(author_infos, person.element), diag)
          ELSE [kind |-> "unmapped", infos |-> author_infos,
                diag |-> diag \o person.diag \o <<"Could not map author">>]

\* creator_dicts is a function from identifiers to entries
\* [lyhenne, tekija, author]
AddCreatorFromJsonModify(rec, creator_dicts) ==
    IF MdSelfLinkTexts(rec) = <<>>
    THEN Raise(rec, "IndexError", <<"cmd", "MdSelfLink">>)
    ELSE IF MdSelfLinkTexts(rec)[1] \notin DOMAIN creator_dicts
    THEN Return(rec, FALSE)
    ELSE
      LET author_dict == creator_dicts[MdSelfLinkTexts(rec)[1]]
          already ==
            IF DescendantsNamed(rec, "cmd", "resourceCreationInfo") # <<>>
            THEN <<"Resource creation info already available">>
            ELSE <<>>
          authors_en == Split(author_dict.author, ";")
          authors_fi == Split(author_dict.tekija, ";")
          \* zip() is only reached with lists of equal length
          got == AuthorInfos(rec, authors_en, authors_fi, 1, <<>>, already)
          resource_info == DescendantsNamed(rec, "cmd", "resourceInfo")
      IN  IF Len(authors_en) # Len(authors_fi)
          THEN ReturnFalse(rec, already \o <<"Different number of authors">>)
          ELSE IF got.kind = "raise"
          THEN [Raise(rec, "XPathEvalError", <<"", "">>) EXCEPT !.diag = got.diag]
          ELSE IF got.kind = "unmapped" THEN ReturnFalse(rec, got.diag)
          ELSE IF got.infos = <<>>
          THEN ReturnFalse(rec, got.diag \o <<"No authors parsed">>)
          ELSE IF resource_info = <<>>
          THEN [Raise(rec, "IndexError", <<"cmd", "resourceInfo">>)
                  EXCEPT !.diag = got.diag]
          ELSE [Return(Indent(AppendAt(rec, resource_info[1],
                                        Cmd("resourceCreationInfo", got.infos))),
                       TRUE)
                  EXCEPT !.diag = got.diag]

AddCreatorFromJsonModifier(creator_dicts) ==
    [kind |-> "AddCreatorFromJson", creator_dicts |-> creator_dicts]

\* ------------------------------------------------------- modifier.modify
Modify(modifier, rec) ==
    CASE modifier.kind = "PersonToOrganization" ->
           PersonToOrganizationModify(rec, modifier.person_surname,
                                      modifier.organization_info)
      [] modifier.kind = "AddOrganizationForPerson" ->
           AddOrganizationForPersonModify(rec, modifier.first_name,
                                          modifier.surname,
                                          modifier.organization_info)
      [] modifier.kind = "AddCreatorFromJson" ->
           AddCreatorFromJsonModify(rec, modifier.creator_dicts)
      [] modifier.kind = "AddDistributionRightsHolder" ->
           AddDistributionRightsHolderModify(rec, modifier.modified_identifiers,
                                             modifier.holder)

AddOrganizationForPersonModifier(first_name, surname, info) ==
    [kind |-> "AddOrganizationForPerson", first_name |-> first_name,
     surname |-> surname, organization_info |-> info]

\* ------------------------------------------------------- creator entries
\* one value of the creator dictionary: English and Finnish author strings
Entry(author, tekija) ==
    [lyhenne |-> <<"c">>, author |-> author, tekija |-> tekija]

\* the author strings the creator file may hold for a record
CreatorEntries ==
    {
      Entry(<<"T", "i", " ", "T", "u", ";", "{", "O", "r", "g", "}">>,
            <<"T", "i", " ", "T", "u", ";", "{", "J", "k", "}">>),
      Entry(<<"T", "i", " ", "T", "u", ";", ";", "{", "O", "r", "g", "}">>,
            <<"T", "i", " ", "T", "u", ";", ";", "{", "J", "k", "}">>),
      Entry(<<"T", "i", " ", "T", "u", ";", "N", "o", " ", "B", "o">>,
            <<"T", "i", " ", "T", "u", ";", "N", "o", " ", "B", "o">>),
      Entry(<<"N", "o", " ", "B", "o", ";", "T", "i", " ", "T", "u">>,
            <<"N", "o", " ", "B", "o", ";", "T", "i", " ", "T", "u">>),
      Entry(<<"T", "i", " ", "T", "u", ";">>,
            <<"T", "i", " ", "T", "u">>),
      Entry(<<"T", "i", " ", "T", "u", ";", "{", "Z", "z", "}">>,
            <<"T", "i", " ", "T", "u", ";", "{", "d", "'", "X", "}">>),
      Entry(<<"T", "i", " ", "T", "u", ";", "{", "Z", "z", "}">>,
            <<"T", "i", " ", "T", "u", ";", "{", "Z", "z", "}">>),
      Entry(<<"T", "i", " ", "T", "\"", "u">>,
            <<"T", "i", " ", "T", "\"", "u">>),
      Entry(<<"T", "i", " ", "T", "u", ";", "T", "u">>,
            <<"T", "i", " ", "T", "u", ";", "T", "i", " ", "T", "u">>) }

\* the creator files: one entry for the listed PID, or only another PID
CreatorDicts ==
    { [i \in {PidListed} |-> e] : e \in CreatorEntries }
    \cup { [i \in {PidOther} |-> Entry(<<"T", "i", " ", "T", "u">>,
                                     <<"T", "i", " ", "T", "u">>)] }

\* ------------------------------------------------------------------ state
VARIABLES
    pc,                 \* where update_metadata (or the harness) stands
    modifiers,          \* selected_modifiers(ctx)
    live_update,        \* --live-update / --dry-run
    save_originals_to,  \* whether --save-originals-to is given
    verbosity,          \* 0, 1 (-v) or 2 (-vv)
    total_records, modified_records, uploaded_records, failed_records,
    cmdi_record,        \* the record being processed
    original_record,    \* the record as harvested (original_record_string)
    pid,                \* the stripped MdSelfLink of the record
    modified,           \* the OR of the modifiers' results so far
    calls,              \* the modify calls made on cmdi_record, in order
    before,             \* cmdi_record as it was before the last modify call
    netlog,             \* the network calls issued for the current record
    reported,           \* what was saved and echoed for the current record
    short_identifier,   \* what short_identifier_from_pid(pid) came to
    error               \* the exception that ended the run, if any

vars == <<pc, modifiers, live_update, save_originals_to, verbosity,
          total_records, modified_records, uploaded_records, failed_records,
          cmdi_record, original_record, pid, modified, calls, before, netlog,
          reported, short_identifier, error>>

pipelineVars == <<live_update, save_originals_to, verbosity, total_records,
                  modified_records, uploaded_records, failed_records, pid,
                  modified, netlog, reported, short_identifier>>

\* short_identifier_from_pid has not been called
NoIdentifier == [kind |-> "none", value |-> <<>>]

\* one modify call as recorded in `calls`
Call(i, out) == [modifier |-> i, result |-> out.result, err |-> out.err,
                 diag |-> out.diag]

\* ------------------------------------------ repeated application (ModSpec)
\* what surrounds licenceInfo in a harvested record: contact persons, the
\* metadata creator and a resourceCreationInfo
Surroundings ==
    { [contacts |-> <<>>, creator |-> <<>>, creation |-> <<>>],
      [contacts |-> <<PersonWrapper("contactPerson", PersonFinclarin)>>,
       creator |-> <<>>, creation |-> <<>>],
      [contacts |-> <<PersonWrapper("contactPerson", PersonTiTu)>>,
       creator |-> <<>>, creation |-> <<>>],
      [contacts |-> <<PersonWrapper("contactPerson", PersonTiTuAffiliated)>>,
       creator |-> <<>>, creation |-> <<>>],
      [contacts |-> <<PersonWrapper("contactPerson", PersonTiTu)>>,
       creator |-> <<PersonWrapper("metadataCreator", PersonFinclarin)>>,
       creation |-> <<>>],
      [contacts |-> <<PersonWrapper("contactPerson", PersonTiTu)>>,
       creator |-> <<>>,
       creation |-> <<Cmd("resourceCreationInfo",
                         <<PersonWrapper("resourceCreatorPerson",
                                         PersonTiTu)>>)>>] }

HarvestedRecords ==
    { HarvestedRecord(PidListed, layout, s.contacts, s.creator, licence,
                      s.creation) :
        layout \in Layouts, s \in Surroundings,
        licence \in SeqsUpTo(LicenceWrappers, MaxLicenceKids) }

\* the modifiers update_cmdi.py can configure
AvailableModifiers ==
    { FinclarinPersonToOrganizationModifier,
      LanguageBankPersonToOrganizationModifier,
      AddOrganizationForPersonModifier(GivenTi, SurnameTu,
                                       AffiliationOrganizationInfo),
      UhelDistributionRightsHolderModifier(<<PidListed>>),
      UhelDistributionRightsHolderModifier(<<PidOther>>) }
    \cup { AddCreatorFromJsonModifier(d) : d \in CreatorDicts }

ModInit ==
    /\ pc = "apply"
    /\ modifiers \in {<<m>> : m \in AvailableModifiers}
    /\ cmdi_record \in HarvestedRecords
    /\ original_record = cmdi_record
    /\ before = cmdi_record
    /\ calls = <<>>
    /\ error = NoError
    /\ live_update = FALSE /\ save_originals_to = FALSE /\ verbosity = 0
    /\ total_records = 0 /\ modified_records = 0
    /\ uploaded_records = 0 /\ failed_records = 0
    /\ pid = <<>> /\ modified = FALSE /\ netlog = <<>> /\ reported = {}
    /\ short_identifier = NoIdentifier

\* modifier.modify(cmdi_record) once more on the same record
Apply ==
    /\ pc = "apply"
    /\ Len(calls) < MaxApplications
    /\ \E out \in {Modify(modifiers[1], cmdi_record)} :
           /\ cmdi_record' = out.rec
           /\ before' = cmdi_record
           /\ calls' = Append(calls, Call(1, out))
           /\ error' = out.err
           /\ pc' = IF Raised(out) THEN "raised" ELSE "apply"
    /\ UNCHANGED <<modifiers, original_record>>
    /\ UNCHANGED pipelineVars

ModNext == Apply

ModSpec == ModInit /\ [][ModNext]_vars

\* ------------------------------------------------------ update_cmdi.py
Digits == {"0", "1", "2", "3", "4", "5", "6", "7", "8", "9"}

\* digits, with single underscores allowed between digits
RECURSIVE DigitsAndUnderscores(_)
DigitsAndUnderscores(s) ==
    /\ s # <<>>
    /\ Head(s) \in Digits
    /\ \/ Len(s) = 1
       \/ DigitsAndUnderscores(Tail(s))
       \/ Len(s) >= 3 /\ s[2] = "_" /\ DigitsAndUnderscores(Tail(Tail(s)))

\* int(s) does not raise ValueError: optional surrounding whitespace, an
\* optional sign, then a decimal literal
IsPyInt(s) ==
    LET t == Strip(s)
        u == IF t # <<>> /\ Head(t) \in {"+", "-"} THEN Tail(t) ELSE t
    IN  DigitsAndUnderscores(u)

LbPrefix == <<"l", "b">>

\* [kind |-> "ok", value] or the exception raised
short_identifier_from_pid(p) ==
    LET identifier == Last(Split(p, ":"))
        parts == Split(identifier, "-")
    IN  IF parts[1] # LbPrefix
        THEN [kind |-> "ValueError", value |-> identifier]
        ELSE IF Len(parts) < 2
        THEN [kind |-> "IndexError", value |-> identifier]
        ELSE IF ~IsPyInt(parts[2])
        THEN [kind |-> "ValueError", value |-> identifier]
        ELSE [kind |-> "ok", value |-> identifier]

\* ------------------------------- short_identifier_from_pid alone (PidSpec)
\* what the PIDs are made of
PidPieces ==
    { <<":">>, <<"l", "b">>, <<"-">>, <<"1">>, <<"x">>, <<"+">>, <<"_">>,
      <<" ">> }

RECURSIVE Concat(_)
Concat(pieces) ==
    IF pieces = <<>> THEN <<>> ELSE Head(pieces) \o Concat(Tail(pieces))

Pids == { Concat(pieces) : pieces \in SeqsUpTo(PidPieces, MaxPidPieces) }

PidInit ==
    /\ pc = "derive"
    /\ pid \in Pids
    /\ modifiers = <<>>
    /\ cmdi_record = <<>> /\ original_record = <<>> /\ before = <<>>
    /\ calls = <<>>
    /\ error = NoError
    /\ live_update = FALSE /\ save_originals_to = FALSE /\ verbosity = 0
    /\ total_records = 0 /\ modified_records = 0
    /\ uploaded_records = 0 /\ failed_records = 0
    /\ modified = FALSE /\ netlog = <<>> /\ reported = {}
    /\ short_identifier = NoIdentifier

\* short_identifier_from_pid(pid): it returns or raises
Derive ==
    /\ pc = "derive"
    /\ short_identifier' = short_identifier_from_pid(pid)
    /\ error' = IF short_identifier_from_pid(pid).kind = "ok" THEN NoError
                ELSE [kind |-> short_identifier_from_pid(pid).kind,
                      detail |-> <<"", "pid">>]
    /\ pc' = IF short_identifier_from_pid(pid).kind = "ok" THEN "derived"
             ELSE "raised"
    /\ UNCHANGED <<modifiers, live_update, save_originals_to, verbosity,
                   total_records, modified_records, uploaded_records,
                   failed_records, cmdi_record, original_record, pid,
                   modified, calls, before, netlog, reported>>

PidNext == Derive

PidSpec == PidInit /\ [][PidNext]_vars

\* what the COMEDI upload endpoint may answer
UploadResponses ==
    { [status_ok |-> FALSE, has_error |-> FALSE, success |-> FALSE],
      [status_ok |-> TRUE, has_error |-> TRUE, success |-> FALSE],
      [status_ok |-> TRUE, has_error |-> FALSE, success |-> FALSE],
      [status_ok |-> TRUE, has_error |-> FALSE, success |-> TRUE] }

\* delete_record does not look at the answer
NoResponse == [status_ok |-> TRUE, has_error |-> FALSE, success |-> FALSE]

\* variant: an answer with an error field is passed over
UploadOutcomeErrorPassedOver(response) ==
    IF ~response.status_ok THEN "HTTPError"
    ELSE IF response.has_error THEN "passed over"
    ELSE IF ~response.success THEN "UploadError"
    ELSE "none"

\* variant: the success field is not looked at
UploadOutcomeWithoutSuccessCheck(response) ==
    IF ~response.status_ok THEN "HTTPError"
    ELSE IF response.has_error THEN "UploadError"
    ELSE "none"

\* the exception upload_record raises for a response, "none" if it returns
UploadOutcome(response) ==
    IF ~response.status_ok THEN "HTTPError"
    ELSE IF response.has_error THEN "UploadError"
    ELSE IF ~response.success THEN "UploadError"
    ELSE "none"

\* variant: the last result wins
ChangedByLastResult(result, modified_so_far) == result

\* the network calls of replace_record, in the order they are issued
ReplaceCalls(identifier, response) ==
    <<[op |-> "delete", identifier |-> identifier, response |-> NoResponse],
      [op |-> "upload", identifier |-> identifier, response |-> response]>>

\* `modified = result or modified`
Changed(result, modified_so_far) == result \/ modified_so_far

\* variant: the dry-run switch is not looked at
UploadDueInDryRun(modified_now, live) == modified_now

\* `if modified and live_update`
UploadDue(modified_now, live) == modified_now /\ live

\* the affiliation file: its entries in order
AffiliationEntry ==
    [first_name |-> GivenTi, last_name |-> SurnameTu,
     organization_info |-> AffiliationOrganizationInfo]

RECURSIVE AffiliationModifiers(_)
AffiliationModifiers(affiliations) ==
    IF affiliations = <<>> THEN <<>>
    ELSE <<AddOrganizationForPersonModifier(Head(affiliations).first_name,
                                            Head(affiliations).last_name,
                                            Head(affiliations).organization_info)>>
         \o AffiliationModifiers(Tail(affiliations))

\* params: the option values; an option that was not given is <<>>
selected_modifiers(params) ==
    AffiliationModifiers(params.add_affiliations_from)
    \o (IF params.add_creators_from # <<>>
        THEN <<AddCreatorFromJsonModifier(params.add_creators_from[1])>>
        ELSE <<>>)
    \o (IF params.finclarin_to_organization
        THEN <<FinclarinPersonToOrganizationModifier>> ELSE <<>>)
    \o (IF params.language_bank_to_organization
        THEN <<LanguageBankPersonToOrganizationModifier>> ELSE <<>>)
    \o (IF params.uhel_distribution_rights_holder_for # <<>>
        THEN <<UhelDistributionRightsHolderModifier(
                 params.uhel_distribution_rights_holder_for[1])>>
        ELSE <<>>)

PidInvalid == <<"u", ":", "l", "b", "-", "x">>
\* a PID with a further part after the number
PidSuffixed == <<"u", ":", "l", "b", "-", "2", "-", "x">>

\* the records the harvested set may hold
SetRecords ==
    { HarvestedRecord(PidOther, "raw", <<>>, <<>>, <<>>, <<>>),
      HarvestedRecord(PidListed, "raw",
                      <<PersonWrapper("contactPerson", PersonTiTu)>>, <<>>,
                      <<PersonWrapper("licensorPerson", PersonFinclarin)>>,
                      <<>>),
      HarvestedRecord(PidSuffixed, "indented",
                      <<PersonWrapper("contactPerson", PersonTiTu)>>, <<>>,
                      <<PersonWrapper("distributionRightsHolderPerson",
                                      PersonFinclarin),
                        PersonWrapper("iprHolderPerson", PersonFinclarin)>>,
                      <<>>),
      HarvestedRecord(PidInvalid, "raw", <<>>, <<>>,
                      <<PersonWrapper("distributionRightsHolderPerson",
                                      PersonFinclarin)>>, <<>>),
      HarvestedRecord(PidListed, "indented", <<>>, <<>>,
                      <<OrganizationWrapper(
                          "distributionRightsHolderOrganization")>>, <<>>) }

\* the creator file of the pipeline runs
SetCreatorDict ==
    [i \in {PidListed} |-> Entry(<<"T", "i", " ", "T", "u">>,
                                <<"T", "i", " ", "T", "u">>)]

\* the reporting options: --save-originals-to and -v / -vv
ReportingChoices ==
    { [save |-> FALSE, verbosity |-> 0], [save |-> TRUE, verbosity |-> 1],
      [save |-> FALSE, verbosity |-> 2] }

Init ==
    /\ pc = "fetch"
    /\ \E affiliations \in SeqsUpTo({AffiliationEntry}, MaxAffiliations),
          creators \in {<<>>, <<SetCreatorDict>>},
          finclarin \in BOOLEAN, language_bank \in BOOLEAN,
          uhel \in {<<>>, <<<<PidListed>>>>} :
         modifiers = selected_modifiers(
           [add_affiliations_from |-> affiliations,
            add_creators_from |-> creators,
            finclarin_to_organization |-> finclarin,
            language_bank_to_organization |-> language_bank,
            uhel_distribution_rights_holder_for |-> uhel])
    /\ live_update \in BOOLEAN
    /\ \E r \in ReportingChoices :
         save_originals_to = r.save /\ verbosity = r.verbosity
    /\ total_records = 0 /\ modified_records = 0
    /\ uploaded_records = 0 /\ failed_records = 0
    /\ cmdi_record = <<>> /\ original_record = <<>> /\ before = <<>>
    /\ pid = <<>> /\ modified = FALSE /\ calls = <<>> /\ netlog = <<>>
    /\ reported = {} /\ error = NoError
    /\ short_identifier = NoIdentifier

config == <<modifiers, live_update, save_originals_to, verbosity>>
tallies == <<total_records, modified_records, uploaded_records,
             failed_records>>

\* the harvest yields its next record: the head of the for loop body
Fetch ==
    /\ pc = "fetch"
    /\ total_records < MaxRecords
    /\ \E r \in SetRecords :
         /\ cmdi_record' = r
         /\ original_record' = r
         /\ before' = r
         /\ pid' = Strip(MdSelfLinkTexts(r)[1])
    /\ total_records' = total_records + 1
    /\ modified' = FALSE
    /\ calls' = <<>>
    /\ netlog' = <<>>
    /\ reported' = {}
    /\ short_identifier' = NoIdentifier
    /\ pc' = "modify"
    /\ UNCHANGED <<config, modified_records, uploaded_records,
                   failed_records, error>>

\* one turn of `for modifier in modifiers`
ModifyStep ==
    /\ pc = "modify"
    /\ Len(calls) < Len(modifiers)
    /\ \E out \in {Modify(modifiers[Len(calls) + 1], cmdi_record)} :
         /\ cmdi_record' = out.rec
         /\ before' = cmdi_record
         /\ calls' = Append(calls, Call(Len(calls) + 1, out))
         /\ modified' = IF Raised(out) THEN modified
                        ELSE Changed(out.result, modified)
         /\ error' = out.err
         /\ pc' = IF Raised(out) THEN "crashed" ELSE "modify"
    /\ UNCHANGED <<config, tallies, original_record, pid, netlog, reported,
                   short_identifier>>

\* `if modified: ... elif vverbose: ...` after the modifier loop
Report ==
    /\ pc = "modify"
    /\ Len(calls) = Len(modifiers)
    /\ modified_records' = IF modified THEN modified_records + 1
                           ELSE modified_records
    /\ reported' =
         IF modified
         THEN (IF save_originals_to THEN {"snapshot"} ELSE {})
              \cup (IF verbosity >= 1 THEN {"diff"} ELSE {})
         ELSE (IF verbosity = 2 THEN {"no changes"} ELSE {})
    /\ pc' = "upload"
    /\ UNCHANGED <<config, total_records, uploaded_records, failed_records,
                   cmdi_record, original_record, pid, modified, calls, before,
                   netlog, short_identifier, error>>

\* `if modified and live_update` is false: on to the next record
SkipUpload ==
    /\ pc = "upload"
    /\ ~UploadDue(modified, live_update)
    /\ pc' = "fetch"
    /\ UNCHANGED <<config, tallies, cmdi_record, original_record, pid,
                   modified, calls, before, netlog, reported,
                   short_identifier, error>>

\* replace_record raises before any network call
IdentifierRejected ==
    /\ pc = "upload"
    /\ UploadDue(modified, live_update)
    /\ short_identifier_from_pid(pid).kind # "ok"
    /\ short_identifier' = short_identifier_from_pid(pid)
    /\ error' = [kind |-> short_identifier_from_pid(pid).kind,
                 detail |-> <<"", "pid">>]
    /\ pc' = "crashed"
    /\ UNCHANGED <<config, tallies, cmdi_record, original_record, pid,
                   modified, calls, before, netlog, reported>>

\* replace_record: delete_record, then upload_record and its answer
Replace ==
    /\ pc = "upload"
    /\ UploadDue(modified, live_update)
    /\ short_identifier_from_pid(pid).kind = "ok"
    /\ short_identifier' = short_identifier_from_pid(pid)
    /\ \E response \in UploadResponses :
         LET outcome == UploadOutcome(response)
         IN  /\ netlog' = netlog \o
                   ReplaceCalls(short_identifier_from_pid(pid).value, response)
             /\ failed_records' = IF outcome = "UploadError"
                                  THEN failed_records + 1 ELSE failed_records
             /\ uploaded_records' = IF outcome = "none"
                                    THEN uploaded_records + 1
                                    ELSE uploaded_records
             /\ error' = IF outcome = "HTTPError"
                         THEN [kind |-> "HTTPError", detail |-> <<"", "upload">>]
                         ELSE error
             /\ pc' = IF outcome = "HTTPError" THEN "crashed" ELSE "fetch"
    /\ UNCHANGED <<config, total_records, modified_records, cmdi_record,
                   original_record, pid, modified, calls, before, reported>>

\* the harvest is exhausted: the summary line is printed
Finish ==
    /\ pc = "fetch"
    /\ pc' = "done"
    /\ UNCHANGED <<config, tallies, cmdi_record, original_record, pid,
                   modified, calls, before, netlog, reported,
                   short_identifier, error>>

Next ==
    \/ Fetch
    \/ ModifyStep
    \/ Report
    \/ SkipUpload
    \/ IdentifierRejected
    \/ Replace
    \/ Finish

Spec == Init /\ [][Next]_vars

\* ========================================================================
\* Properties
\* ========================================================================
\* the tree with its whitespace left out: tags, attributes, text, order
RECURSIVE Structure(_)
RECURSIVE StructureAll(_)
StructureAll(kids) ==
    IF kids = <<>> THEN <<>>
    ELSE <<Structure(Head(kids))>> \o StructureAll(Tail(kids))

Structure(n) == [n EXCEPT !.ws = "any", !.kids = StructureAll(n.kids)]

RecognizedRoles == {"contactPerson", "metadataCreator", "licensorPerson",
                    "distributionRightsHolderPerson"}

\* the persons of rec carrying the surname, and the elements above them
Targets(rec, surname) == OrganizationPersons(rec, surname)
ParentOf(rec, p) == At(rec, ParentPath(p))

TargetsUnder(rec, surname, roles) ==
    LET under(p) == ParentOf(rec, p).ns = "cmd" /\ ParentOf(rec, p).tag \in roles
    IN  SelectSeq(Targets(rec, surname), under)

TargetsOutside(rec, surname, roles) ==
    LET outside(p) ==
          ~(ParentOf(rec, p).ns = "cmd" /\ ParentOf(rec, p).tag \in roles)
    IN  SelectSeq(Targets(rec, surname), outside)

LastCall == Last(calls)
LastModifier == modifiers[LastCall.modifier]
LastIsRewriting ==
    calls # <<>> /\ LastModifier.kind = "PersonToOrganization"

\* ---------------------------------------------------------------- C1
\* C1: when the modifier loop of a record is left, every configured
\* modifier has been called exactly once, in configuration order, whatever
\* the earlier calls returned, and the record is handled as changed
\* (modified_records incremented, snapshot and diff produced when asked for,
\* upload due in live mode) exactly when one of the calls returned true.
SomeCallReturnedTrue == \E i \in 1..Len(calls) : calls[i].result

C1_ModifiersRunOnceInOrder ==
    [][/\ pc = "upload" =>
            \* the step taken from here sends, or fails on the identifier
            (netlog' # netlog \/ pc' = "crashed")
              = (SomeCallReturnedTrue /\ live_update)
       /\ (pc = "modify" /\ pc' = "upload") =>
            /\ Len(calls) = Len(modifiers)
            /\ \A i \in 1..Len(calls) :
                 calls[i].modifier = i /\ calls[i].err = NoError
            /\ modified = SomeCallReturnedTrue
            /\ modified_records' = modified_records
                                   + (IF SomeCallReturnedTrue THEN 1 ELSE 0)
            /\ ("snapshot" \in reported')
                 = (SomeCallReturnedTrue /\ save_originals_to)
            /\ ("diff" \in reported')
              = (SomeCallReturnedTrue /\ verbosity >= 1)]_vars

\* a record whose first modifier changed it and whose later one did not
C1_Witness ==
    /\ pc = "upload"
    /\ Len(calls) >= 3
    /\ calls[1].result /\ ~calls[2].result /\ calls[3].result
    /\ modified

\* ---------------------------------------------------------------- C2
\* C2: a delete or upload call has been issued for the current record only
\* if one of its modifiers returned true and live mode is on; in a dry run,
\* and for an unchanged record, the record's network log stays empty.
C2_NetworkOnlyWhenChangedAndLive ==
    netlog # <<>> => (live_update /\ SomeCallReturnedTrue)

C2_Witness ==
    /\ netlog # <<>>
    /\ total_records = 2
    /\ modified_records = 1

\* ---------------------------------------------------------------- C3
\* C3: when the upload answers with an error field or without success, the
\* failure tally grows by exactly one, the uploaded tally does not grow, no
\* exception escapes, and the loop goes on to the next harvested record.
UploadReportedFailure(response) ==
    response.status_ok /\ (response.has_error \/ ~response.success)

C3_UploadErrorIsCounted ==
    [][(netlog = <<>> /\ netlog' # <<>>
        /\ UploadReportedFailure(Last(netlog').response)) =>
            /\ failed_records' = failed_records + 1
            /\ uploaded_records' = uploaded_records
            /\ error' = NoError
            /\ pc' = "fetch"]_vars

\* a record is being processed after an earlier record's upload failed
C3_Witness ==
    /\ failed_records = 1
    /\ uploaded_records = 0
    /\ total_records = 2
    /\ pc = "modify"

RaisedOnStranger ==
    LastIsRewriting =>
      LET strangers == TargetsOutside(before, LastModifier.person_surname,
                                      RecognizedRoles)
      IN  strangers # <<>> =>
            /\ LastCall.err =
                 [kind |-> "ValueError",
                  detail |-> <<ParentOf(before, strangers[1]).ns,
                               ParentOf(before, strangers[1]).tag>>]
            /\ pc = "crashed"
            /\ error = LastCall.err
            /\ netlog = <<>>
            /\ reported = {}
            /\ modified_records < total_records

C8_UnrecognizedParentStopsTheRun ==
    [][RaisedOnStranger' /\ pc # "crashed"]_vars

\* an earlier modifier changed the record, then the rewriting modifier
\* raised on it in a live run
C8_Witness ==
    /\ pc = "crashed"
    /\ LastIsRewriting
    /\ error = [kind |-> "ValueError", detail |-> <<"cmd", "iprHolderPerson">>]
    /\ modified
    /\ live_update
    /\ total_records = 2
    /\ modified_records = 1

\* ---------------------------------------------------------------- C9
\* C9: on a record whose target persons all sit under recognized roles, the
\* rewriting modifier returns true exactly when one of them sits under
\* licensorPerson or distributionRightsHolderPerson; each such parent is
\* replaced in place by licensorOrganization (role "licensor") or
\* distributionRightsHolderOrganization (role "distributionRightsHolder")
\* holding the configured organization info, everything else is kept, and
\* no target person is left under either role.
HoldsTarget(n, surname) ==
    \E i \in 1..Len(n.kids) :
        /\ Is(n.kids[i], "cmd", "personInfo")
        /\ HasChildWithText(n.kids[i], "cmd", "surname", surname)

RECURSIVE Rewritten(_, _, _)
RECURSIVE RewrittenAll(_, _, _)
RewrittenAll(kids, surname, info) ==
    IF kids = <<>> THEN <<>>
    ELSE <<Rewritten(Head(kids), surname, info)>>
         \o RewrittenAll(Tail(kids), surname, info)

Rewritten(n, surname, info) ==
    IF Is(n, "cmd", "licensorPerson") /\ HoldsTarget(n, surname)
    THEN [ns |-> "cmd", tag |-> "licensorOrganization", lang |-> "",
          text |-> <<>>, ws |-> "raw",
          kids |-> <<[ns |-> "cmd", tag |-> "role", lang |-> "",
                      text |-> RoleLicensor, ws |-> "raw", kids |-> <<>>],
                     info>>]
    ELSE IF Is(n, "cmd", "distributionRightsHolderPerson")
            /\ HoldsTarget(n, surname)
    THEN [ns |-> "cmd", tag |-> "distributionRightsHolderOrganization",
          lang |-> "", text |-> <<>>, ws |-> "raw",
          kids |-> <<[ns |-> "cmd", tag |-> "role", lang |-> "",
                      text |-> RoleDistributionRightsHolder, ws |-> "raw",
                      kids |-> <<>>],
                     info>>]
    ELSE [n EXCEPT !.kids = RewrittenAll(n.kids, surname, info)]

C10_ContactsLeftAlone ==
    (LastIsRewriting /\ Len(calls) = 1
     /\ Targets(before, LastModifier.person_surname) # <<>>
     /\ TargetsOutside(before, LastModifier.person_surname,
                       {"contactPerson", "metadataCreator"}) = <<>>) =>
      /\ ~Raised(LastCall)
      /\ ~LastCall.result
      /\ Structure(cmdi_record) = Structure(before)

\* a target person under metadataCreator, in a record that has other persons
C10_Witness ==
    /\ LastIsRewriting
    /\ Len(calls) = 1
    /\ ~LastCall.result
    /\ TargetsUnder(before, LastModifier.person_surname, {"metadataCreator"})
         # <<>>
    /\ TargetsOutside(before, LastModifier.person_surname,
                      {"contactPerson", "metadataCreator"}) = <<>>
    /\ Len(At(before, LocationPaths(before, <<<<>>>>, LicenceInfoPath)[1]).kids)
         = MaxLicenceKids

\* ---------------------------------------------------------------- C5
\* C5: the enrichment modifier never gives a person a second affiliation:
\* however often it is applied, no personInfo holds more than one
\* affiliation child, and the second and later applications return false.
LastIsEnrichment ==
    calls # <<>> /\ LastModifier.kind = "AddOrganizationForPerson"

RECURSIVE AffiliationCount(_)
AffiliationCount(kids) ==
    IF kids = <<>> THEN 0
    ELSE (IF Head(kids).tag = "affiliation" THEN 1 ELSE 0)
         + AffiliationCount(Tail(kids))

C5_NeverASecondAffiliation ==
    LastIsEnrichment =>
      /\ \A i \in 1..Len(DescendantsNamed(cmdi_record, "cmd", "personInfo")) :
           AffiliationCount(
             At(cmdi_record,
                DescendantsNamed(cmdi_record, "cmd", "personInfo")[i]).kids)
             <= 1
      /\ Len(calls) >= 2 => ~LastCall.result

\* ---------------------------------------------------------------- C6
\* C6: when some non-empty author pair of the record's entry matches no
\* organizationInfo (by English or Finnish name) and no personInfo (by given
\* name and surname) of the record, whatever its position, the creator
\* modifier returns false and the record is what it was before the call.
LastIsCreator == calls # <<>> /\ LastModifier.kind = "AddCreatorFromJson"

NamesOrganization(rec, author_en, author_fi) ==
    /\ \/ (author_en # <<>> /\ Head(author_en) = "{")
       \/ (author_fi # <<>> /\ Head(author_fi) = "{")
    /\ \E i \in 1..Len(DescendantsNamed(rec, "cmd", "organizationInfo")) :
         LET o == At(rec, DescendantsNamed(rec, "cmd", "organizationInfo")[i])
         IN  \/ HasOrganizationName(o, "en", StripChars(author_en, {"{", "}"}))
             \/ HasOrganizationName(o, "fi", StripChars(author_fi, {"{", "}"}))

NamesPerson(rec, author_en, author_fi) ==
    LET en == Strip(author_en)
        fi == Strip(author_fi)
        name == SplitWhitespace(IF en = <<>> THEN fi ELSE en)
    IN  /\ ~Contains(author_en, "{") /\ ~Contains(author_fi, "{")
        /\ (en = fi \/ en = <<>> \/ fi = <<>>)
        /\ Len(name) = 2
        /\ \E i \in 1..Len(DescendantsNamed(rec, "cmd", "personInfo")) :
             LET q == At(rec, DescendantsNamed(rec, "cmd", "personInfo")[i])
             IN  /\ HasChildWithText(q, "cmd", "givenName", name[1])
                 /\ HasChildWithText(q, "cmd", "surname", name[2])

\* the entry of the record's identifier has an author pair that names
\* nothing in rec
HasUnresolvablePair(rec, creator_dicts) ==
    /\ MdSelfLinkTexts(rec) # <<>>
    /\ MdSelfLinkTexts(rec)[1] \in DOMAIN creator_dicts
    /\ LET entry == creator_dicts[MdSelfLinkTexts(rec)[1]]
           en == Split(entry.author, ";")
           fi == Split(entry.tekija, ";")
       IN  /\ Len(en) = Len(fi)
           /\ \E k \in 1..Len(en) :
                /\ ~(en[k] = <<>> /\ fi[k] = <<>>)
                /\ ~NamesOrganization(rec, en[k], fi[k])
                /\ ~NamesPerson(rec, en[k], fi[k])

C6_AllOrNothing ==
    (LastIsCreator /\ HasUnresolvablePair(before, LastModifier.creator_dicts))
      => /\ ~Raised(LastCall)
         /\ ~LastCall.result
         /\ cmdi_record = before

\* what does hold of the code: a call that did not return true, whether it
\* returned false or raised, left the record as it was
CreatorLeavesRecordUnlessTrue ==
    (LastIsCreator /\ ~LastCall.result) => cmdi_record = before

\* ---------------------------------------------------------------- C7
\* C7: for a record on the allow-list, the rights-holder modifier raises the
\* conflict error and inserts nothing when licenceInfo already holds a
\* distributionRightsHolderPerson or distributionRightsHolderOrganization,
\* harvested or inserted earlier; so a first call on a record without one
\* returns true and the second call raises.
LastIsRightsHolder ==
    calls # <<>> /\ LastModifier.kind = "AddDistributionRightsHolder"

HoldsRightsHolder(rec) ==
    \E i \in 1..Len(LocationPaths(rec, <<<<>>>>, LicenceInfoPath)) :
      \E k \in 1..Len(At(rec, LocationPaths(rec, <<<<>>>>,
                                            LicenceInfoPath)[i]).kids) :
        At(rec, LocationPaths(rec, <<<<>>>>, LicenceInfoPath)[i]).kids[k].tag
          \in {"distributionRightsHolderPerson",
               "distributionRightsHolderOrganization"}

C7_InsertOnly ==
    (LastIsRightsHolder
     /\ MdSelfLinkTexts(before)[1] \in Range(LastModifier.modified_identifiers))
      => IF HoldsRightsHolder(before)
         THEN /\ LastCall.err.kind = "ValueError"
              /\ cmdi_record = before
         ELSE LastCall.result

\* ---------------------------------------------------------------- C11
\* C11: short_identifier_from_pid returns what follows the last ":" of the
\* PID exactly when that is "lb-" followed by decimal digits only, and
\* raises ValueError (the identifier-format error) for every other PID.
RECURSIVE AfterLastColon(_)
AfterLastColon(s) ==
    IF \A i \in 1..Len(s) : s[i] # ":" THEN s
    ELSE AfterLastColon(Tail(s))

IsLbInteger(s) ==
    /\ Len(s) >= 4
    /\ s[1] = "l" /\ s[2] = "b" /\ s[3] = "-"
    /\ \A i \in 4..Len(s) : s[i] \in Digits

C11_ShortIdentifierShape ==
    short_identifier # NoIdentifier =>
      IF IsLbInteger(AfterLastColon(pid))
      THEN short_identifier = [kind |-> "ok", value |-> AfterLastColon(pid)]
      ELSE short_identifier.kind = "ValueError"

\* what does hold of the code: a well-formed identifier is returned as it is
ShortIdentifierAcceptsWellFormed ==
    (short_identifier # NoIdentifier /\ IsLbInteger(AfterLastColon(pid))) =>
      short_identifier = [kind |-> "ok", value |-> AfterLastColon(pid)]

\* a returned identifier that is not "lb-" and digits, with a suffix
AcceptedWithSuffix ==
    /\ short_identifier.kind = "ok"
    /\ Len(Split(short_identifier.value, "-")) >= 3

\* ---------------------------------------------------------------- C12
\* C12: when the upload is answered with a non-2xx status, the failure
\* tally grows by one, the uploaded tally does not grow, no exception
\* escapes, and the loop goes on to the next harvested record.
UploadAnsweredWithBadStatus(log) ==
    \E i \in 1..Len(log) :
        log[i].op = "upload" /\ ~log[i].response.status_ok

C12_BadStatusIsAnUploadFailure ==
    [][(netlog = <<>> /\ UploadAnsweredWithBadStatus(netlog')) =>
            /\ failed_records' = failed_records + 1
            /\ uploaded_records' = uploaded_records
            /\ error' = NoError
            /\ pc' = "fetch"]_vars

\* what does hold of the code: the status error ends the run uncounted
BadStatusEndsTheRun ==
    [][(netlog = <<>> /\ UploadAnsweredWithBadStatus(netlog')) =>
            /\ failed_records' = failed_records
            /\ uploaded_records' = uploaded_records
            /\ error'.kind = "HTTPError"
            /\ pc' = "crashed"]_vars

\* ---------------------------------------------------------------- C13
\* C13: the creator modifier adds no resourceCreationInfo to a record that
\* already holds one, so however often it is applied the record holds at
\* most one more resourceCreationInfo than it was harvested with.
CreationInfos(rec) == Len(DescendantsNamed(rec, "cmd", "resourceCreationInfo"))

C13_CreatorInferenceIdempotent ==
    LastIsCreator =>
      /\ CreationInfos(before) > 0 =>
           CreationInfos(cmdi_record) = CreationInfos(before)
      /\ CreationInfos(cmdi_record) <= CreationInfos(original_record) + 1

\* what does hold of the code: a call adds one resourceCreationInfo exactly
\* when it returns true, whatever the record already holds
CreatorAddsOnePerSuccess ==
    LastIsCreator =>
      CreationInfos(cmdi_record) =
        CreationInfos(before) + (IF LastCall.result THEN 1 ELSE 0)

\* a second successful application
CreatorAppliedTwice ==
    /\ LastIsCreator /\ Len(calls) = 2
    /\ calls[1].result /\ calls[2].result
    /\ CreationInfos(cmdi_record) = CreationInfos(original_record) + 2

\* ---------------------------------------------------------------- C14
\* C14: the network calls issued for a record are a delete followed by an
\* upload, both for what follows the last ":" of the record's PID; a PID
\* whose last part is not "lb-" and an integer causes no call at all; and
\* every upload is preceded by a delete of the same identifier.
DeleteThenUpload(log) ==
    /\ Len(log) = 2
    /\ log[1].op = "delete" /\ log[2].op = "upload"
    /\ log[1].identifier = log[2].identifier
    /\ log[1].identifier = AfterLastColon(pid)
    /\ \A i \in 1..Len(log) :
         log[i].op = "upload" =>
           \E j \in 1..(i - 1) :
             log[j].op = "delete" /\ log[j].identifier = log[i].identifier

C14_ValidatedDeleteThenUpload ==
    /\ netlog # <<>> => DeleteThenUpload(netlog)
    /\ ~IsLbInteger(AfterLastColon(pid)) => netlog = <<>>

\* what does hold of the code: the order of the calls, and no call for a
\* PID that short_identifier_from_pid rejects
DeleteThenUploadOfAccepted ==
    /\ netlog # <<>> =>
         (DeleteThenUpload(netlog) /\ short_identifier.kind = "ok")
    /\ short_identifier.kind \notin {"ok", "none"} =>
         (netlog = <<>> /\ pc = "crashed")

\* ---------------------------------------------------------------- C15
\* C15: update_metadata always gets to its summary line: no record's
\* modifiers, identifier or upload ends the run before it is printed, and
\* the total it reports counts every harvested record.
C15_SummaryAlwaysPrinted ==
    /\ pc # "crashed"
    /\ pc = "done" => total_records <= MaxRecords

\* what does hold of the code: the run ends short of the summary only with
\* an exception that escaped update_metadata
StopsOnlyOnEscapedException ==
    /\ pc \in {"fetch", "modify", "upload", "done", "crashed"}
    /\ pc = "crashed" <=> error # NoError
    /\ error.kind \in {"none", "ValueError", "IndexError", "HTTPError",
                       "XPathEvalError", "AttributeError"}

\* ---------------------------------------------------------------- C16
\* C16: an author pair with no segment starting with "{" resolves to a
\* person only if the segments are identical or one is empty, the resolved
\* one splits into exactly two tokens, and a personInfo with that given
\* name and surname exists; for any other such pair the call returns false
\* without raising.
StartsWithBrace(s) == s # <<>> /\ Head(s) = "{"

IsPersonPair(author_en, author_fi) ==
    /\ ~(author_en = <<>> /\ author_fi = <<>>)
    /\ ~StartsWithBrace(author_en) /\ ~StartsWithBrace(author_fi)

C16_PersonResolution ==
    (/\ LastIsCreator
     /\ MdSelfLinkTexts(before) # <<>>
     /\ MdSelfLinkTexts(before)[1] \in DOMAIN LastModifier.creator_dicts) =>
      LET entry == LastModifier.creator_dicts[MdSelfLinkTexts(before)[1]]
          en == Split(entry.author, ";")
          fi == Split(entry.tekija, ";")
      IN  Len(en) = Len(fi) =>
            /\ LastCall.result =>
                 \A k \in 1..Len(en) :
                   IsPersonPair(en[k], fi[k]) =>
                     NamesPerson(before, en[k], fi[k])
            /\ (\E k \in 1..Len(en) :
                   /\ IsPersonPair(en[k], fi[k])
                   /\ ~NamesPerson(before, en[k], fi[k])) =>
                 (~Raised(LastCall) /\ ~LastCall.result)

\* what does hold of the code: a person pair is resolved only under the
\* three conditions
PersonResolvedOnlyWhenNamed ==
    (/\ LastIsCreator /\ LastCall.result
     /\ MdSelfLinkTexts(before) # <<>>
     /\ MdSelfLinkTexts(before)[1] \in DOMAIN LastModifier.creator_dicts) =>
      LET entry == LastModifier.creator_dicts[MdSelfLinkTexts(before)[1]]
          en == Split(entry.author, ";")
          fi == Split(entry.tekija, ";")
      IN  \A k \in 1..Len(en) :
            IsPersonPair(en[k], fi[k]) => NamesPerson(before, en[k], fi[k])

\* ---------------------------------------------------------------- C17
\* C17: when the creator modifier returns true, the record is what it was
\* plus one resourceCreationInfo appended as last child of resourceInfo;
\* that element holds one wrapper per non-empty author pair, in the order
\* of the pairs, each with role "resourceCreator" and a copy of a
\* personInfo or organizationInfo the record held before the call and that
\* the pair names.
RECURSIVE NonEmptyPairs(_, _, _)
NonEmptyPairs(en, fi, k) ==
    IF k > Len(en) THEN <<>>
    ELSE (IF en[k] = <<>> /\ fi[k] = <<>> THEN <<>> ELSE <<k>>)
         \o NonEmptyPairs(en, fi, k + 1)

IsCopyOf(e, rec, tag) ==
    \E i \in 1..Len(DescendantsNamed(rec, "cmd", tag)) :
        Structure(e) = Structure(At(rec, DescendantsNamed(rec, "cmd", tag)[i]))

WrapsPair(w, rec, author_en, author_fi) ==
    /\ w.ns = "cmd" /\ w.text = <<>> /\ Len(w.kids) = 2
    /\ w.kids[1].ns = "cmd" /\ w.kids[1].tag = "role"
    /\ w.kids[1].text = <<"r","e","s","o","u","r","c","e","C","r","e","a",
                          "t","o","r">>
    /\ \/ /\ w.tag = "resourceCreatorPerson"
          /\ IsCopyOf(w.kids[2], rec, "personInfo")
          /\ LET name == SplitWhitespace(IF Strip(author_en) = <<>>
                                         THEN Strip(author_fi)
                                         ELSE Strip(author_en))
             IN  /\ Len(name) = 2
                 /\ HasChildWithText(w.kids[2], "cmd", "givenName", name[1])
                 /\ HasChildWithText(w.kids[2], "cmd", "surname", name[2])
       \/ /\ w.tag = "resourceCreatorOrganization"
          /\ IsCopyOf(w.kids[2], rec, "organizationInfo")
          /\ \/ HasOrganizationName(w.kids[2], "en",
                                     StripChars(author_en, {"{", "}"}))
             \/ HasOrganizationName(w.kids[2], "fi",
                                     StripChars(author_fi, {"{", "}"}))

C17_CreatorInsertionShape ==
    (LastIsCreator /\ LastCall.result) =>
      LET entry == LastModifier.creator_dicts[MdSelfLinkTexts(before)[1]]
          en == Split(entry.author, ";")
          fi == Split(entry.tekija, ";")
          pairs == NonEmptyPairs(en, fi, 1)
          resource_info == DescendantsNamed(before, "cmd", "resourceInfo")[1]
          new == Last(At(cmdi_record, resource_info).kids)
      IN  /\ Structure(cmdi_record)
               = Structure(AppendAt(before, resource_info, new))
          /\ Is(new, "cmd", "resourceCreationInfo")
          /\ Len(new.kids) = Len(pairs)
          /\ \A j \in 1..Len(pairs) :
                WrapsPair(new.kids[j], before, en[pairs[j]], fi[pairs[j]])

\* a person and an organization were wrapped, an empty pair was skipped
C17_Witness ==
    /\ LastIsCreator /\ LastCall.result /\ Len(calls) = 1
    /\ Len(Split(LastModifier.creator_dicts[MdSelfLinkTexts(before)[1]].author,
                 ";")) = 3
    /\ LET new == Last(At(cmdi_record,
                          DescendantsNamed(before, "cmd", "resourceInfo")[1]).kids)
       IN  /\ Len(new.kids) = 2
           /\ new.kids[1].tag = "resourceCreatorPerson"
           /\ new.kids[2].tag = "resourceCreatorOrganization"

\* ---------------------------------------------------------------- C18
\* C18: when the rewriting modifier raises on a match under an unrecognized
\* parent, the matches before it in document order that sat under
\* licensorPerson or distributionRightsHolderPerson stay replaced by their
\* organization elements, and the offending match stays where it was.
FirstStranger(rec, surname) ==
    CHOOSE i \in 1..Len(Targets(rec, surname)) :
      /\ ~(ParentOf(rec, Targets(rec, surname)[i]).ns = "cmd"
           /\ ParentOf(rec, Targets(rec, surname)[i]).tag \in RecognizedRoles)
      /\ \A j \in 1..(i - 1) :
           /\ ParentOf(rec, Targets(rec, surname)[j]).ns = "cmd"
           /\ ParentOf(rec, Targets(rec, surname)[j]).tag \in RecognizedRoles

\* the matches before the first stranger whose parent is rewritten
RewrittenBefore(rec, surname) ==
    { Targets(rec, surname)[j] : j \in
        { j \in 1..(FirstStranger(rec, surname) - 1) :
            ParentOf(rec, Targets(rec, surname)[j]).tag
              \in {"licensorPerson", "distributionRightsHolderPerson"} } }

C18_NoRollback ==
    (LastIsRewriting /\ LastCall.err.kind = "ValueError") =>
      LET surname == LastModifier.person_surname
          stranger == Targets(before, surname)[FirstStranger(before, surname)]
      IN  /\ \A p \in RewrittenBefore(before, surname) :
                LET old == ParentOf(before, p)
                    new == ParentOf(cmdi_record, p)
                IN  /\ new.ns = "cmd"
                    /\ new.tag = (IF old.tag = "licensorPerson"
                                  THEN "licensorOrganization"
                                  ELSE "distributionRightsHolderOrganization")
                    /\ Len(new.kids) = 2
                    /\ new.kids[2] = LastModifier.organization_info
          /\ ParentOf(cmdi_record, stranger) = ParentOf(before, stranger)
          /\ (RewrittenBefore(before, surname) # {}) = (cmdi_record # before)

\* a distributionRightsHolderPerson was replaced before the call raised
C18_Witness ==
    /\ LastIsRewriting /\ LastCall.err.kind = "ValueError"
    /\ RewrittenBefore(before, LastModifier.person_surname) # {}
    /\ cmdi_record # before
    /\ pc = "raised"

\* ---------------------------------------------------------------- C19
\* C19: uploaded_records + failed_records <= modified_records <=
\* total_records at all times; in a dry run uploaded_records and
\* failed_records stay 0; in live mode, once a record is fully processed,
\* uploaded_records + failed_records = modified_records; and a record
\* changes each tally by at most one: total_records when it is fetched,
\* modified_records when its modifier loop is left, uploaded_records or
\* failed_records when its upload is answered.
TalliesConsistent ==
    /\ uploaded_records + failed_records <= modified_records
    /\ modified_records <= total_records
    /\ ~live_update => (uploaded_records = 0 /\ failed_records = 0)
    /\ (live_update /\ pc \in {"fetch", "done"}) =>
         uploaded_records + failed_records = modified_records

C19_TalliesConsistent ==
    [][/\ TalliesConsistent'
       /\ total_records' - total_records
            = (IF pc = "fetch" /\ pc' = "modify" THEN 1 ELSE 0)
       /\ modified_records' - modified_records \in {0, 1}
       /\ modified_records' # modified_records =>
            (pc = "modify" /\ pc' = "upload")
       /\ (uploaded_records' - uploaded_records)
            + (failed_records' - failed_records) \in {0, 1}
       /\ uploaded_records' >= uploaded_records
       /\ failed_records' >= failed_records
       /\ (uploaded_records' # uploaded_records
           \/ failed_records' # failed_records) =>
            (pc = "upload" /\ pc' = "fetch")]_vars

\* a live run ended with one record uploaded and one failed
C19_Witness ==
    /\ pc = "done" /\ live_update
    /\ total_records = 2 /\ modified_records = 2
    /\ uploaded_records = 1 /\ failed_records = 1

====
